---- MODULE Spec2Model ----
(***************************************************************************)
(* A model of the one-for-one supervision combinator of zestors            *)
(* (zestors/src/supervision/combinator_specs/one_for_one.rs) and of the    *)
(* restart limiter it owns.                                                *)
(*                                                                         *)
(* Slot kinds keep the names of the enum OneForOneItem:                    *)
(*   "Spec"          a specification that is not started  (Pending)        *)
(*   "StartFut"      a start operation in flight          (Starting)       *)
(*   "Supervisee"    a running child                      (Running)        *)
(*   "Irrecoverable" a child that failed for good         (Failed)         *)
(*   "Completed"     a child with nothing left to do      (Done)           *)
(*                                                                         *)
(* Time is counted in units of 10 ms, the slack that OneForOneSpec::start  *)
(* adds to the largest start time of its children.                         *)
(***************************************************************************)
EXTENDS Integers, Sequences, FiniteSets, TLC

\* ------------------------------------------------------------------ bounds
MaxChildren == 2      \* children added to a group
MaxTime == 2          \* instants at which the clock may still advance idly
MaxLimit == 1         \* largest limit given to OneForOneSpec::new
MaxWithin == 2        \* largest window given to OneForOneSpec::new
MaxSignals == 2       \* halt and abort calls made on a running group
MaxCalls == 4         \* within_limit calls on a limiter driven on its own
MaxStarts == 3        \* start calls made on a wrapped specification
MaxCasts == 3         \* downcasts tried on one envelope

\* ------------------------------------------------------ program constants
Slack == 1            \* Duration::from_millis(10), in units of 10 ms
ChildStartTimes == {0, 1}   \* values of a child's spec.start_time()
None == -1            \* Option::None of the timer

\* ------------------------------------------------------------------- state
VARIABLES
    phase,          \* which object is alive: "Spec", "StartFut", "Supervisee",
                    \* "Err" (the start resolved with an error), "Panicked",
                    \* "Limiter" (a limiter driven on its own)
    items,          \* OneForOneSpec.items: the kind of each slot
    start_times,    \* start_time() of each specification not started yet
    child,          \* what the next poll of each slot's future returns,
                    \* "None" for a slot that holds no future
    limit, within,  \* RestartLimiter: its two parameters
    values,         \* RestartLimiter: the recorded instants
    now,            \* Instant::now()
    timer,          \* OneForOneStartFut.timer: deadline of the Sleep, or None
    shutdown_time,  \* OneForOneStartFut.shutdown_time
    start_failure,  \* OneForOneStartFut.start_failure
    result,         \* what the start operation resolved with, "None" before
    halted, aborted,\* OneForOneSupervisee.halted / aborted
    halts, aborts,  \* signals each slot's supervisee has received
    \* history, read by the properties only
    calls,          \* every within_limit call: instant, answer, slot, oldest
    obs,            \* per slot, what the group saw its start resolve with
    polled,         \* per slot, polls of its future in the last group poll
    early,          \* per slot, its start resolved "Ok" before the deadline
    start_deadline, \* deadline of the timer armed by OneForOneStartFut::new
    ncalls,         \* number of halt and of abort calls on the group
    ids,            \* per slot, the child it holds (numbered as it was added)
    nstarted,       \* number of slots OneForOneSpec::start was called with
    fired,          \* number of times the Sleep of the timer was found ready
    \* the reference-forwarding wrapper (supervision/channel_spec.rs)
    sender,         \* the field `sender` of the live wrapper: NoSender or a
                    \* channel
    inner,          \* what the next poll of the wrapped future returns
    nstarts,        \* start calls made; the n-th start yields reference n
    queue,          \* references waiting in the channel of RefSenderSpec::new
    received,       \* references its receiver has taken out
    rx_open,        \* the receiver is neither closed nor dropped
    sends,          \* history: every sender.send call
    hist,           \* history: every poll that resolved, inner and wrapper
    inner_halts, inner_aborts,  \* signals the wrapped supervisee received
    inner_times,    \* start_timeout and abort_timeout of the wrapped objects
    \* the type-erased message (zestors-core/src/boxed_msg.rs)
    boxed,          \* the live BoxedMessage, NoBox when there is none
    orig,           \* history: the type and value BoxedMessage::new was given
    casts           \* history: the downcasts tried on this envelope

vars == <<phase, items, start_times, child, limit, within, values, now, timer,
          shutdown_time, start_failure, result, halted, aborted, halts, aborts,
          calls, obs, polled, early, start_deadline, ncalls, ids, nstarted,
          fired, sender, inner, nstarts, queue, received, rx_open, sends, hist,
          inner_halts, inner_aborts, inner_times, boxed, orig, casts>>

\* the variables of the one-for-one group, of the wrapper, of the envelope
gvars == <<items, start_times, child, limit, within, values, timer,
           shutdown_time, start_failure, result, halted, aborted, halts,
           aborts, calls, obs, polled, early, start_deadline, ids, nstarted,
           fired>>
rvars == <<sender, inner, nstarts, queue, received, rx_open, sends, hist,
           inner_halts, inner_aborts, inner_times>>
bvars == <<boxed, orig, casts>>

NoSender == 0          \* Option::None of the field `sender`
Chan == 1              \* the channel made by RefSenderSpec::new
InnerTimes == {0, 1}   \* values of the wrapped start_timeout, abort_timeout
NoBox == [type_id |-> <<>>, value |-> <<>>]   \* no envelope is alive
NoOrig == [type |-> "None", value |-> <<>>]

\* the wrapper and the envelope while the model runs something else
RefIdle ==
    /\ sender = NoSender /\ inner = "None" /\ nstarts = 0
    /\ queue = <<>> /\ received = <<>> /\ rx_open = FALSE
    /\ sends = <<>> /\ hist = <<>>
    /\ inner_halts = 0 /\ inner_aborts = 0
    /\ inner_times = [start |-> 0, abort |-> 0]

BoxIdle == boxed = NoBox /\ orig = NoOrig /\ casts = <<>>

\* the one-for-one group while the model runs something else
GroupIdle ==
    /\ items = <<>> /\ start_times = <<>> /\ child = <<>>
    /\ limit = 0 /\ within = 1 /\ values = <<>>
    /\ timer = None /\ shutdown_time = 0 /\ start_failure = FALSE
    /\ result = "None"
    /\ halted = FALSE /\ aborted = FALSE
    /\ halts = <<>> /\ aborts = <<>>
    /\ calls = <<>> /\ obs = <<>> /\ polled = <<>> /\ early = <<>>
    /\ start_deadline = 0
    /\ ids = <<>> /\ nstarted = 0 /\ fired = 0

StartReady == {"Ok", "Completed", "Failed", "Irrecoverable"}
ExitReady == {"Restart", "Finished", "Fatal"}

Slots == 1..Len(items)

RECURSIVE SeqMax(_, _)
\* the fold of OneForOneSpec::start: the largest start time, from Duration::ZERO
SeqMax(s, acc) ==
    IF s = <<>> THEN acc
    ELSE SeqMax(Tail(s), IF Head(s) > acc THEN Head(s) ELSE acc)

\* ------------------------------------------------------------ the limiter
\* RestartLimiter is modelled from its contract (section 4.1 of the
\* specification): record the instant, forget attempts older than `within`,
\* answer whether at most `limit` attempts remain.

\* a limiter that never forgets an attempt
WithinLimit_NoForget(vals, t) ==
    LET nv == Append(vals, t)
    IN  [values |-> nv, ok |-> Len(nv) <= limit]

\* RestartLimiter::within_limit at instant t
WithinLimit(vals, t) ==
    LET kept == SelectSeq(vals, LAMBDA v : t - v <= within)
        nv == Append(kept, t)
    IN  [values |-> nv, ok |-> Len(nv) <= limit]


\* `if !inner.limiter.within_limit() { this.start_failure = true; .. }`, lines
\* 227-228 and 234-235: one within_limit call made for slot i, with its
\* history entry.
Charge(s, i) ==
    LET r == WithinLimit(s.values, now)
        e == [at |-> now, ok |-> r.ok, slot |-> i,
              oldest |-> IF s.values = <<>> THEN None ELSE s.values[1]]
    IN  [s EXCEPT !.values = r.values,
                  !.calls = Append(@, e),
                  !.start_failure = @ \/ ~r.ok]

\* --------------------------------------------- OneForOneStartFut::poll
\* The state the loops of poll work on: the fields of the future, all_ready,
\* and `out`, what the poll returns ("Continue": go round 'outer again).
LoopState(fresh) ==
    [items |-> items, child |-> child, values |-> values, calls |-> calls,
     obs |-> obs, polled |-> [i \in Slots |-> 0], order |-> <<>>,
     fresh |-> fresh,
     all_ready |-> TRUE, start_failure |-> start_failure, timer |-> timer,
     fired |-> fired,
     out |-> "Continue"]

Seen(s, i, what) ==
    [s EXCEPT !.obs[i].start = what, !.obs[i].draining = s.start_failure]

\* a recoverable failure after which the slot is started again at once
FanOutFailed_Restarts(p, i) ==
    Charge([Seen(p, i, "Failed") EXCEPT !.items[i] = "StartFut",
                                        !.child[i] = "Pending"], i)

\* fan-out, lines 225-231: the start of slot i failed recoverably
FanOutFailed(p, i) ==
    Charge([Seen(p, i, "Failed") EXCEPT !.items[i] = "Spec",
                                        !.child[i] = "None"], i)

\* an irrecoverable start that sends the group to draining, budget or not
FanOutIrrecoverable_Escalates(p, i) ==
    [Charge([Seen(p, i, "Irrecoverable")
                EXCEPT !.items[i] = "Irrecoverable", !.child[i] = "None"], i)
        EXCEPT !.start_failure = TRUE]

\* fan-out, lines 232-238: the start of slot i failed for good
FanOutIrrecoverable(p, i) ==
    Charge([Seen(p, i, "Irrecoverable") EXCEPT !.items[i] = "Irrecoverable",
                                               !.child[i] = "None"], i)

\* fan-out, lines 218-243: one iteration of 'inner
FanOutItem(s, i) ==
    IF s.items[i] # "StartFut" THEN s
    ELSE LET p == [s EXCEPT !.polled[i] = @ + 1, !.order = Append(@, i)]
             r == s.child[i]
         IN  CASE r = "Pending" -> [p EXCEPT !.all_ready = FALSE]
               [] r = "Ok" ->
                    [Seen(p, i, r) EXCEPT !.items[i] = "Supervisee",
                                          !.child[i] = s.fresh[i]]
               [] r = "Completed" ->
                    [Seen(p, i, r) EXCEPT !.items[i] = "Completed",
                                          !.child[i] = "None"]
               [] r = "Failed" -> FanOutFailed(p, i)
               [] r = "Irrecoverable" -> FanOutIrrecoverable(p, i)

RECURSIVE FanOutLoop_NoBreak(_, _)
\* an 'inner that goes on after the budget is exhausted
FanOutLoop_NoBreak(s, i) ==
    IF i > Len(s.items) THEN s
    ELSE FanOutLoop_NoBreak(FanOutItem(s, i), i + 1)

RECURSIVE FanOutLoop(_, _)
\* 'inner of the fan-out branch; `break 'inner` follows start_failure = true
FanOutLoop(s, i) ==
    IF i > Len(s.items) \/ s.start_failure THEN s
    ELSE FanOutLoop(FanOutItem(s, i), i + 1)

\* a recoverable failure that is charged to the limiter in draining too
DrainFailed_Charged(p, i) ==
    Charge([Seen(p, i, "Failed") EXCEPT !.items[i] = "Spec",
                                        !.child[i] = "None"], i)

\* draining, lines 273-275: the start of slot i failed recoverably
DrainFailed(p, i) ==
    [Seen(p, i, "Failed") EXCEPT !.items[i] = "Spec", !.child[i] = "None"]

\* a running child that counts as settled
DrainRunning_Settled(p) == p

\* draining, lines 285 and 297-299: the supervisee of the slot is not ready
DrainRunning(p) == [p EXCEPT !.all_ready = FALSE]

\* draining, lines 264-302: one iteration of 'inner
DrainItem(s, i) ==
    LET p == [s EXCEPT !.polled[i] = @ + 1, !.order = Append(@, i)]
        r == s.child[i]
    IN  CASE s.items[i] = "StartFut" ->
               (CASE r = "Pending" -> [p EXCEPT !.all_ready = FALSE]
                  [] r = "Ok" ->
                       [Seen(p, i, r) EXCEPT !.items[i] = "Supervisee",
                                             !.child[i] = s.fresh[i],
                                             !.all_ready = FALSE]
                  [] r = "Completed" ->
                       [Seen(p, i, r) EXCEPT !.items[i] = "Completed",
                                             !.child[i] = "None"]
                  [] r = "Failed" -> DrainFailed(p, i)
                  [] r = "Irrecoverable" ->
                       [Seen(p, i, r) EXCEPT !.items[i] = "Irrecoverable",
                                             !.child[i] = "None"])
          [] s.items[i] = "Supervisee" ->
               (CASE r = "Pending" -> DrainRunning(p)
                  [] r = "Restart" ->
                       [p EXCEPT !.items[i] = "Spec", !.child[i] = "None"]
                  [] r = "Finished" ->
                       [p EXCEPT !.items[i] = "Completed", !.child[i] = "None"]
                  [] r = "Fatal" ->
                       [p EXCEPT !.items[i] = "Irrecoverable",
                                 !.child[i] = "None"])
          [] OTHER -> s

RECURSIVE DrainLoop(_, _)
DrainLoop(s, i) ==
    IF i > Len(s.items) THEN s ELSE DrainLoop(DrainItem(s, i), i + 1)

\* a timer whose Sleep is never polled
TimeLimitReached_Never(t) == t = None

\* time_limit_reached: a timer that is None has fired before; a Sleep is
\* ready from its deadline on, and is then taken out of the Option.
TimeLimitReached(t) == t = None \/ now >= t

TimerAfterCheck(t) == IF TimeLimitReached(t) THEN None ELSE t

\* an `ok` that a running child clears as well
VerdictOk_NoRunning(its) ==
    \A i \in 1..Len(its) :
        its[i] \notin {"StartFut", "Supervisee", "Irrecoverable"}

\* the three flags of take_start_now, lines 162-180
VerdictOk(its) ==
    \A i \in 1..Len(its) : its[i] \notin {"StartFut", "Irrecoverable"}

VerdictIrrecoverable(its) ==
    \E i \in 1..Len(its) :
        its[i] \in {"StartFut", "Supervisee", "Irrecoverable"}

VerdictCompleted(its) == \A i \in 1..Len(its) : its[i] # "Spec"

\* take_start_now, lines 182-201: the verdict of the draining phase
TakeStartNow(its) ==
    IF VerdictOk(its) THEN "Ok"
    ELSE IF VerdictIrrecoverable(its) THEN "Irrecoverable"
    ELSE IF VerdictCompleted(its) THEN "Completed"
    ELSE "Failed"

\* a fan-out branch that reports success only once the timer has fired
FanOutBranch_WaitsForTimer(s) ==
    LET l == FanOutLoop(s, 1)
    IN  IF l.start_failure THEN [l EXCEPT !.timer = now + shutdown_time]
        ELSE IF l.all_ready /\ TimeLimitReached(l.timer)
             THEN [l EXCEPT !.out = "Ok"]
             ELSE IF TimeLimitReached(l.timer)
                  THEN [l EXCEPT !.timer = now + shutdown_time,
                                 !.start_failure = TRUE,
                                 !.fired = @ + 1]
                  ELSE [l EXCEPT !.out = "Pending"]

\* a fan-out branch that looks at the timer before it looks at all_ready
FanOutBranch_TimerFirst(s) ==
    LET l == FanOutLoop(s, 1)
    IN  IF l.start_failure THEN [l EXCEPT !.timer = now + shutdown_time]
        ELSE IF TimeLimitReached(l.timer)
             THEN [l EXCEPT !.timer = now + shutdown_time,
                            !.start_failure = TRUE,
                            !.fired = @ + 1]
             ELSE IF l.all_ready THEN [l EXCEPT !.out = "Ok"]
                  ELSE [l EXCEPT !.out = "Pending"]

\* the fan-out branch of 'outer, lines 214-259
FanOutBranch(s) ==
    LET l == FanOutLoop(s, 1)
    IN  IF l.start_failure THEN [l EXCEPT !.timer = now + shutdown_time]
        ELSE IF l.all_ready THEN [l EXCEPT !.out = "Ok"]
        ELSE IF TimeLimitReached(l.timer)
             THEN [l EXCEPT !.timer = now + shutdown_time,
                            !.start_failure = TRUE,
                            !.fired = @ + 1]
             ELSE [l EXCEPT !.out = "Pending"]

\* the Sleep of timer t, polled by time_limit_reached, is found ready
TimerFires(t) == t # None /\ TimeLimitReached(t)

\* a draining branch that waits for every slot, timer or not
DrainBranch_WaitsForAll(s) ==
    LET l == DrainLoop([s EXCEPT !.all_ready = TRUE], 1)
    IN  IF l.all_ready THEN [l EXCEPT !.out = TakeStartNow(l.items)]
        ELSE [l EXCEPT !.out = "Pending"]

\* the draining branch of 'outer, lines 260-310
DrainBranch(s) ==
    LET l == DrainLoop([s EXCEPT !.all_ready = TRUE], 1)
    IN  IF l.all_ready THEN [l EXCEPT !.out = TakeStartNow(l.items)]
        ELSE IF TimeLimitReached(l.timer)
             THEN [l EXCEPT !.out = TakeStartNow(l.items),
                            !.timer = TimerAfterCheck(l.timer),
                            !.fired = IF TimerFires(l.timer)
                                      THEN @ + 1 ELSE @]
             ELSE [l EXCEPT !.out = "Pending"]

\* 'outer: the fan-out branch falls through to the draining branch in the
\* same call when it has set start_failure
PollLoop(s) ==
    IF s.start_failure THEN DrainBranch(s)
    ELSE LET f == FanOutBranch(s)
         IN  IF f.out = "Continue" THEN DrainBranch(f) ELSE f


\* ---------------------------------------------------------------- actions
NoObs == [start |-> "None", draining |-> FALSE]

Fresh(n, v) == [i \in 1..n |-> v]

\* The state after OneForOneSpec::new(limit, within): an empty group.
Init ==
    /\ phase = "Spec"
    /\ items = <<>> /\ start_times = <<>> /\ child = <<>>
    /\ limit \in 0..MaxLimit /\ within \in 1..MaxWithin
    /\ values = <<>>
    /\ now = 0
    /\ timer = None /\ shutdown_time = 0 /\ start_failure = FALSE
    /\ result = "None"
    /\ halted = FALSE /\ aborted = FALSE
    /\ halts = <<>> /\ aborts = <<>>
    /\ calls = <<>> /\ obs = <<>> /\ polled = <<>> /\ early = <<>>
    /\ start_deadline = 0
    /\ ncalls = [halt |-> 0, abort |-> 0]
    /\ ids = <<>> /\ nstarted = 0 /\ fired = 0
    /\ RefIdle /\ BoxIdle

\* OneForOneSpec::add_spec (and with_spec): push a specification
AddSpec(t) ==
    /\ phase = "Spec"
    /\ Len(items) < MaxChildren
    /\ items' = Append(items, "Spec")
    /\ start_times' = Append(start_times, t)
    /\ child' = Append(child, "None")
    /\ halts' = Append(halts, 0) /\ aborts' = Append(aborts, 0)
    /\ obs' = Append(obs, NoObs)
    /\ polled' = Append(polled, 0)
    /\ early' = Append(early, FALSE)
    /\ ids' = Append(ids, Len(ids) + 1)
    /\ UNCHANGED <<phase, limit, within, values, now, timer, shutdown_time,
                   start_failure, result, halted, aborted, calls,
                   start_deadline, ncalls>>
    /\ UNCHANGED <<nstarted, fired, rvars, bvars>>

\* the index of the last "Spec" slot, 0 when there is none
LastSpec(its) ==
    LET S == {i \in 1..Len(its) : its[i] = "Spec"}
    IN  IF S = {} THEN 0 ELSE CHOOSE i \in S : \A j \in S : j <= i

\* OneForOneSpec::pop_spec: pop items until a specification was popped
PopSpec ==
    /\ phase = "Spec"
    /\ items # <<>>
    /\ LET k == LastSpec(items)
       IN  /\ items' = SubSeq(items, 1, k - 1)
           /\ start_times' = SubSeq(start_times, 1, k - 1)
           /\ child' = SubSeq(child, 1, k - 1)
           /\ halts' = SubSeq(halts, 1, k - 1)
           /\ aborts' = SubSeq(aborts, 1, k - 1)
           /\ obs' = SubSeq(obs, 1, k - 1)
           /\ polled' = SubSeq(polled, 1, k - 1)
           /\ early' = SubSeq(early, 1, k - 1)
           /\ ids' = SubSeq(ids, 1, k - 1)
    /\ UNCHANGED <<phase, limit, within, values, now, timer, shutdown_time,
                   start_failure, result, halted, aborted, calls,
                   start_deadline, ncalls>>
    /\ UNCHANGED <<nstarted, fired, rvars, bvars>>

\* the start time OneForOneSpec::start computes, lines 97-104
GroupStartTime(ts) == SeqMax(ts, 0) + Slack

\* OneForOneItem::start: a specification becomes its start operation; any
\* other item is left swapped for Completed and the call returns an error
ItemStart(it) == IF it = "Spec" THEN "StartFut" ELSE "Completed"

\* OneForOneSpec::start, then OneForOneStartFut::new
Start ==
    /\ phase = "Spec"
    /\ \A i \in Slots : items[i] = "Spec"
    /\ phase' = "StartFut"
    /\ items' = [i \in Slots |-> ItemStart(items[i])]
    /\ child' = Fresh(Len(items), "Pending")
    /\ timer' = now + GroupStartTime(start_times)
    /\ start_deadline' = now + GroupStartTime(start_times)
    /\ shutdown_time' = GroupStartTime(start_times)
    /\ start_failure' = FALSE
    /\ start_times' = <<>>
    /\ nstarted' = Len(items)
    /\ UNCHANGED <<limit, within, values, now, result, halted, aborted,
                   halts, aborts, calls, obs, polled, early, ncalls>>
    /\ UNCHANGED <<ids, fired, rvars, bvars>>

\* The environment: the future of slot i becomes ready with r. Readiness is
\* read by OneForOneStartFut::poll only, so it is tracked while that lives.
ChildResolve(i, r) ==
    /\ phase = "StartFut"
    /\ child[i] = "Pending"
    /\ \/ items[i] = "StartFut" /\ r \in StartReady
       \/ items[i] = "Supervisee" /\ r \in ExitReady
    /\ child' = [child EXCEPT ![i] = r]
    /\ early' = [early EXCEPT ![i] = items[i] = "StartFut" /\ r = "Ok"
                                      /\ now < start_deadline]
    /\ UNCHANGED <<phase, items, start_times, limit, within, values, now,
                   timer, shutdown_time, start_failure, result, halted,
                   aborted, halts, aborts, calls, obs, polled,
                   start_deadline, ncalls>>
    /\ UNCHANGED <<ids, nstarted, fired, rvars, bvars>>

\* The clock advances; idle ticking stops at MaxTime, an armed timer can
\* always run to its deadline.
Tick ==
    /\ phase = "StartFut"
    /\ now < MaxTime \/ (timer # None /\ now < timer)
    /\ now' = now + 1
    /\ UNCHANGED <<phase, items, start_times, child, limit, within, values,
                   timer, shutdown_time, start_failure, result, halted,
                   aborted, halts, aborts, calls, obs, polled, early,
                   start_deadline, ncalls>>
    /\ UNCHANGED <<ids, nstarted, fired, rvars, bvars>>

\* what a supervisee that starts during this poll answers to its first poll
FreshChoices ==
    {f \in [Slots -> {"Pending"} \cup ExitReady] :
        \A i \in Slots :
            ~(items[i] = "StartFut" /\ child[i] = "Ok") => f[i] = "Pending"}

\* a result that leaves behind the slots that were never restarted
ResultSlots_DropPending(out, its) ==
    SelectSeq([i \in 1..Len(its) |-> i], LAMBDA i : its[i] # "Spec")

\* the slots the resolved start operation hands on, lines 183-200: all of
\* them in place, but for the last branch, which keeps the specifications
ResultSlots(out, its) ==
    IF out = "Failed"
    THEN SelectSeq([i \in 1..Len(its) |-> i], LAMBDA i : its[i] = "Spec")
    ELSE [i \in 1..Len(its) |-> i]

\* the items the resolved start operation hands on (lines 183-200)
ResultItems(out, its) ==
    [k \in 1..Len(ResultSlots(out, its)) |-> its[ResultSlots(out, its)[k]]]

\* a poll that aborts the running children once the group is draining
PollSignals_AbortOnDrain(r) ==
    [halts |-> halts,
     aborts |-> [i \in 1..Len(r.items) |->
                    IF r.start_failure /\ r.items[i] = "Supervisee"
                    THEN aborts[i] + 1 ELSE aborts[i]]]

\* the halt and abort calls of poll, lines 209-312: there is none
PollSignals(r) == [halts |-> halts, aborts |-> aborts]

\* OneForOneStartFut::poll, one whole call
Poll ==
    /\ phase = "StartFut"
    /\ \E fresh \in FreshChoices :
        LET r == PollLoop(LoopState(fresh))
        IN  /\ phase' = CASE r.out = "Pending" -> "StartFut"
                          [] r.out = "Ok" -> "Supervisee"
                          [] OTHER -> "Err"
            /\ result' = IF r.out = "Pending" THEN "None" ELSE r.out
            /\ items' = ResultItems(r.out, r.items)
            /\ ids' = [k \in 1..Len(ResultSlots(r.out, r.items)) |->
                          ids[ResultSlots(r.out, r.items)[k]]]
            /\ child' = r.child
            /\ values' = r.values
            /\ calls' = r.calls
            /\ obs' = r.obs
            /\ polled' = r.polled
            /\ timer' = r.timer
            /\ start_failure' = r.start_failure
            /\ fired' = r.fired
            /\ halts' = PollSignals(r).halts
            /\ aborts' = PollSignals(r).aborts
    /\ UNCHANGED <<start_times, limit, within, now, shutdown_time, halted,
                   aborted, early, start_deadline, ncalls>>
    /\ UNCHANGED <<nstarted, rvars, bvars>>

\* a loop that signals every slot
SignalItems_All(its, sig) == [i \in 1..Len(its) |-> sig[i] + 1]

\* the loop of halt and of abort, lines 342-346 and 352-356: one signal to
\* the supervisee of every slot that holds one
SignalItems(its, sig) ==
    [i \in 1..Len(its) |-> IF its[i] = "Supervisee" THEN sig[i] + 1 ELSE sig[i]]

\* OneForOneSupervisee::halt
Halt ==
    /\ phase = "Supervisee"
    /\ ncalls.halt + ncalls.abort < MaxSignals
    /\ halted' = TRUE
    /\ halts' = SignalItems(items, halts)
    /\ ncalls' = [ncalls EXCEPT !.halt = @ + 1]
    /\ UNCHANGED <<phase, items, start_times, child, limit, within, values,
                   now, timer, shutdown_time, start_failure, result, aborted,
                   aborts, calls, obs, polled, early, start_deadline>>
    /\ UNCHANGED <<ids, nstarted, fired, rvars, bvars>>

\* OneForOneSupervisee::abort
Abort ==
    /\ phase = "Supervisee"
    /\ ncalls.halt + ncalls.abort < MaxSignals
    /\ aborted' = TRUE
    /\ aborts' = SignalItems(items, aborts)
    /\ ncalls' = [ncalls EXCEPT !.abort = @ + 1]
    /\ UNCHANGED <<phase, items, start_times, child, limit, within, values,
                   now, timer, shutdown_time, start_failure, result, halted,
                   halts, calls, obs, polled, early, start_deadline>>
    /\ UNCHANGED <<ids, nstarted, fired, rvars, bvars>>

\* <OneForOneSupervisee as Future>::poll is todo!(): it panics
SuperviseePoll ==
    /\ phase = "Supervisee"
    /\ phase' = "Panicked"
    /\ UNCHANGED <<items, start_times, child, limit, within, values, now,
                   timer, shutdown_time, start_failure, result, halted,
                   aborted, halts, aborts, calls, obs, polled, early,
                   start_deadline, ncalls>>
    /\ UNCHANGED <<ids, nstarted, fired, rvars, bvars>>

Next ==
    \/ \E t \in ChildStartTimes : AddSpec(t)
    \/ PopSpec
    \/ Start
    \/ \E i \in Slots, r \in StartReady \cup ExitReady : ChildResolve(i, r)
    \/ Tick
    \/ Poll
    \/ Halt
    \/ Abort
    \/ SuperviseePoll

Spec == Init /\ [][Next]_vars

\* a poll would change something: the enabling condition of <<Poll>>_vars
PollWakes ==
    /\ phase = "StartFut"
    /\ \E f \in FreshChoices :
           LET r == PollLoop(LoopState(f))
           IN  \/ r.out # "Pending"
               \/ <<r.items, r.child, r.values, r.calls, r.obs, r.polled,
                     r.timer, r.start_failure, r.fired>>
                  # <<items, child, values, calls, obs, polled, timer,
                       start_failure, fired>>

\* The start operation is polled again after every wake-up (weak fairness
\* of Poll, with its enabling condition written out), and time goes on
\* while a timer is armed.
SpecFair ==
    /\ Spec
    /\ WF_vars(Tick)
    /\ ([]<>(~PollWakes) \/ []<><<Poll>>_vars)

\* ------------------------------------------- a limiter driven on its own
\* RestartLimiter::new(limit, within)
LimiterInit ==
    /\ phase = "Limiter"
    /\ items = <<>> /\ start_times = <<>> /\ child = <<>>
    /\ limit \in 0..MaxLimit /\ within \in 1..MaxWithin
    /\ values = <<>>
    /\ now = 0
    /\ timer = None /\ shutdown_time = 0 /\ start_failure = FALSE
    /\ result = "None"
    /\ halted = FALSE /\ aborted = FALSE
    /\ halts = <<>> /\ aborts = <<>>
    /\ calls = <<>> /\ obs = <<>> /\ polled = <<>> /\ early = <<>>
    /\ start_deadline = 0
    /\ ncalls = [halt |-> 0, abort |-> 0]
    /\ ids = <<>> /\ nstarted = 0 /\ fired = 0
    /\ RefIdle /\ BoxIdle

\* one call of within_limit
LimiterCall ==
    /\ phase = "Limiter"
    /\ Len(calls) < MaxCalls
    /\ LET r == WithinLimit(values, now)
       IN  /\ values' = r.values
           /\ calls' = Append(calls,
                  [at |-> now, ok |-> r.ok, slot |-> 0,
                   oldest |-> IF values = <<>> THEN None ELSE values[1]])
    /\ UNCHANGED <<phase, items, start_times, child, limit, within, now,
                   timer, shutdown_time, start_failure, result, halted,
                   aborted, halts, aborts, obs, polled, early, start_deadline,
                   ncalls>>
    /\ UNCHANGED <<ids, nstarted, fired, rvars, bvars>>

LimiterTick ==
    /\ phase = "Limiter"
    /\ now < MaxTime
    /\ now' = now + 1
    /\ UNCHANGED <<phase, items, start_times, child, limit, within, values,
                   timer, shutdown_time, start_failure, result, halted,
                   aborted, halts, aborts, calls, obs, polled, early,
                   start_deadline, ncalls>>
    /\ UNCHANGED <<ids, nstarted, fired, rvars, bvars>>

LimiterNext == LimiterCall \/ LimiterTick

SpecLimiter == LimiterInit /\ [][LimiterNext]_vars


\* --------------------------------------- the reference-forwarding wrapper
\* supervision/channel_spec.rs. The wrapped specification, its start
\* operation and its supervisee are the environment: `inner` is what their
\* next poll returns. The n-th start of the wrapped specification yields
\* reference n.
RefStartReady == {"Ok", "Failure", "Finished", "Unhandled"}

\* the fields a poll of the wrapper works on, and `out`, what it returns
RefState ==
    [phase |-> phase, sender |-> sender, inner |-> inner, queue |-> queue,
     sends |-> sends, out |-> "Pending"]

\* sender.send(reference), line 76: an unbounded sender fails only when the
\* receiver is closed or dropped, and then hands the value back
SenderSend(w, ch, ref) ==
    LET ok == ch = Chan /\ rx_open
    IN  [w EXCEPT !.sends = Append(@, [ref |-> ref, chan |-> ch, ok |-> ok]),
                  !.queue = IF ok THEN Append(@, ref) ELSE @]

\* `.take().unwrap()` of a sender that is None
RefPanic(w) == [w EXCEPT !.phase = "Panicked", !.out = "Panic"]

\* a success arm that forwards nothing
FutOk_NoSend(w, ref) ==
    IF w.sender = NoSender THEN RefPanic(w)
    ELSE [w EXCEPT !.phase = "RefSenderSupervisee", !.inner = "Pending",
                   !.out = "Ok"]

\* a success arm that reports a failed send as a fault of the start
FutOk_SendChecked(w, ref) ==
    IF w.sender = NoSender THEN RefPanic(w)
    ELSE LET t == SenderSend(w, w.sender, ref)
         IN  IF t.sends[Len(t.sends)].ok
             THEN [t EXCEPT !.phase = "RefSenderSupervisee",
                            !.inner = "Pending", !.out = "Ok"]
             ELSE [t EXCEPT !.phase = "RefDone", !.inner = "None",
                            !.out = "Unhandled"]

\* lines 74-84: the wrapped start resolved Ok((supervisee, reference))
FutOk(w, ref) ==
    IF w.sender = NoSender THEN RefPanic(w)
    ELSE LET t == SenderSend(w, w.sender, ref)
         IN  [t EXCEPT !.phase = "RefSenderSupervisee", !.inner = "Pending",
                       !.out = "Ok"]

\* a failure arm that hands back a specification without its sender
FutFailure_DropsSender(w) ==
    IF w.sender = NoSender THEN RefPanic(w)
    ELSE [w EXCEPT !.phase = "RefSenderSpec", !.inner = "None",
                   !.sender = NoSender, !.out = "Failure"]

\* lines 85-88: the wrapped start resolved Err(StartError::Failure(spec))
FutFailure(w) ==
    IF w.sender = NoSender THEN RefPanic(w)
    ELSE [w EXCEPT !.phase = "RefSenderSpec", !.inner = "None",
                   !.out = "Failure"]

\* <RefSenderSpecFut as Future>::poll, lines 71-92
RefSenderSpecFutPoll(w, ref) ==
    CASE w.inner = "Pending" -> w
      [] w.inner = "Ok" -> FutOk(w, ref)
      [] w.inner = "Failure" -> FutFailure(w)
      [] w.inner = "Finished" ->
           [w EXCEPT !.phase = "RefDone", !.inner = "None",
                     !.out = "Finished"]
      [] w.inner = "Unhandled" ->
           [w EXCEPT !.phase = "RefDone", !.inner = "None",
                     !.out = "Unhandled"]

\* a supervisee that loses the specification of a restart request
RefSenderSuperviseePoll_RestartLost(w) ==
    CASE w.inner = "Pending" -> w
      [] w.inner \in {"Restart", "Finished"} ->
           [w EXCEPT !.phase = "RefDone", !.inner = "None",
                     !.out = "Finished"]
      [] w.inner = "Fatal" ->
           [w EXCEPT !.phase = "RefDone", !.inner = "None", !.out = "Fatal"]

\* a supervisee that wraps the specification of a restart without a sender
RefSenderSuperviseePoll_SenderLost(w) ==
    CASE w.inner = "Pending" -> w
      [] w.inner = "Restart" ->
           [w EXCEPT !.phase = "RefSenderSpec", !.inner = "None",
                     !.sender = NoSender, !.out = "Restart"]
      [] w.inner = "Finished" ->
           [w EXCEPT !.phase = "RefDone", !.inner = "None",
                     !.out = "Finished"]
      [] w.inner = "Fatal" ->
           [w EXCEPT !.phase = "RefDone", !.inner = "None", !.out = "Fatal"]

\* <RefSenderSupervisee as Future>::poll, lines 118-128: Ok(Some(spec)) is
\* wrapped again with the sender taken from the supervisee
RefSenderSuperviseePoll(w) ==
    CASE w.inner = "Pending" -> w
      [] w.inner = "Restart" ->
           [w EXCEPT !.phase = "RefSenderSpec", !.inner = "None",
                     !.out = "Restart"]
      [] w.inner = "Finished" ->
           [w EXCEPT !.phase = "RefDone", !.inner = "None",
                     !.out = "Finished"]
      [] w.inner = "Fatal" ->
           [w EXCEPT !.phase = "RefDone", !.inner = "None", !.out = "Fatal"]

\* RefSenderSpec::start_timeout, lines 54-56
StartTimeout == inner_times.start

\* RefSenderSupervisee::abort_timeout, lines 102-104
AbortTimeout == inner_times.abort

\* The state after RefSenderSpec::new(spec): the wrapper holds the sender of
\* a fresh channel, the caller holds its receiver.
RefInit ==
    /\ phase = "RefSenderSpec"
    /\ sender = Chan /\ inner = "None" /\ nstarts = 0
    /\ queue = <<>> /\ received = <<>> /\ rx_open = TRUE
    /\ sends = <<>> /\ hist = <<>>
    /\ inner_halts = 0 /\ inner_aborts = 0
    /\ inner_times \in [start : InnerTimes, abort : InnerTimes]
    /\ ncalls = [halt |-> 0, abort |-> 0]
    /\ now = 0
    /\ GroupIdle /\ BoxIdle

\* RefSenderSpec::start, lines 58-63: the sender moves into the future
RefStart ==
    /\ phase = "RefSenderSpec"
    /\ nstarts < MaxStarts
    /\ phase' = "RefSenderSpecFut"
    /\ inner' = "Pending"
    /\ nstarts' = nstarts + 1
    /\ UNCHANGED <<sender, queue, received, rx_open, sends, hist, inner_halts,
                   inner_aborts, inner_times, ncalls, now, gvars, bvars>>

\* The environment: the wrapped start operation, or the wrapped supervisee,
\* becomes ready with r.
InnerResolve(r) ==
    /\ inner = "Pending"
    /\ \/ phase = "RefSenderSpecFut" /\ r \in RefStartReady
       \/ phase = "RefSenderSupervisee" /\ r \in ExitReady
    /\ inner' = r
    /\ UNCHANGED <<phase, sender, nstarts, queue, received, rx_open, sends,
                   hist, inner_halts, inner_aborts, inner_times, ncalls, now,
                   gvars, bvars>>

\* the history entry of a poll that resolved
Resolution(op, w) ==
    IF w.out = "Pending" THEN hist
    ELSE Append(hist, [op |-> op, inner |-> inner, out |-> w.out,
                       ref |-> nstarts, rx |-> rx_open])

\* <RefSenderSpecFut as Future>::poll, one whole call
RefFutPoll ==
    /\ phase = "RefSenderSpecFut"
    /\ LET w == RefSenderSpecFutPoll(RefState, nstarts)
       IN  /\ phase' = w.phase /\ sender' = w.sender /\ inner' = w.inner
           /\ queue' = w.queue /\ sends' = w.sends
           /\ hist' = Resolution("start", w)
    /\ UNCHANGED <<nstarts, received, rx_open, inner_halts, inner_aborts,
                   inner_times, ncalls, now, gvars, bvars>>

\* <RefSenderSupervisee as Future>::poll, one whole call
RefExitPoll ==
    /\ phase = "RefSenderSupervisee"
    /\ LET w == RefSenderSuperviseePoll(RefState)
       IN  /\ phase' = w.phase /\ sender' = w.sender /\ inner' = w.inner
           /\ queue' = w.queue /\ sends' = w.sends
           /\ hist' = Resolution("exit", w)
    /\ UNCHANGED <<nstarts, received, rx_open, inner_halts, inner_aborts,
                   inner_times, ncalls, now, gvars, bvars>>

\* RefSenderSupervisee::halt, lines 106-108
ForwardHalt(sig) == [sig EXCEPT !.halts = @ + 1]

\* RefSenderSupervisee::abort, lines 110-112
ForwardAbort(sig) == [sig EXCEPT !.aborts = @ + 1]

InnerSignals == [halts |-> inner_halts, aborts |-> inner_aborts]

\* a call of RefSenderSupervisee::halt
RefHalt ==
    /\ phase = "RefSenderSupervisee"
    /\ ncalls.halt + ncalls.abort < MaxSignals
    /\ ncalls' = [ncalls EXCEPT !.halt = @ + 1]
    /\ inner_halts' = ForwardHalt(InnerSignals).halts
    /\ inner_aborts' = ForwardHalt(InnerSignals).aborts
    /\ UNCHANGED <<phase, sender, inner, nstarts, queue, received, rx_open,
                   sends, hist, inner_times, now, gvars, bvars>>

\* a call of RefSenderSupervisee::abort
RefAbort ==
    /\ phase = "RefSenderSupervisee"
    /\ ncalls.halt + ncalls.abort < MaxSignals
    /\ ncalls' = [ncalls EXCEPT !.abort = @ + 1]
    /\ inner_halts' = ForwardAbort(InnerSignals).halts
    /\ inner_aborts' = ForwardAbort(InnerSignals).aborts
    /\ UNCHANGED <<phase, sender, inner, nstarts, queue, received, rx_open,
                   sends, hist, inner_times, now, gvars, bvars>>

\* The environment: the holder of the receiver takes a reference out.
RxRecv ==
    /\ rx_open /\ queue # <<>>
    /\ received' = Append(received, Head(queue))
    /\ queue' = Tail(queue)
    /\ UNCHANGED <<phase, sender, inner, nstarts, rx_open, sends, hist,
                   inner_halts, inner_aborts, inner_times, ncalls, now, gvars,
                   bvars>>

\* The environment: the receiver is dropped, and what it held with it.
RxDrop ==
    /\ rx_open
    /\ rx_open' = FALSE
    /\ queue' = <<>>
    /\ UNCHANGED <<phase, sender, inner, nstarts, received, sends, hist,
                   inner_halts, inner_aborts, inner_times, ncalls, now, gvars,
                   bvars>>

RefNext ==
    \/ RefStart
    \/ \E r \in RefStartReady \cup ExitReady : InnerResolve(r)
    \/ RefFutPoll
    \/ RefExitPoll
    \/ RefHalt
    \/ RefAbort
    \/ RxRecv
    \/ RxDrop

SpecRef == RefInit /\ [][RefNext]_vars


\* ----------------------------------------------- the type-erased message
\* zestors-core/src/boxed_msg.rs. An envelope is the Box<dyn Any>: the type
\* of what it holds, and the value.
MsgTypes == {"Msg1", "Msg2", "Req1", "Req2"}
MsgValues == {0, 1}
TxIds == {1, 2}

\* `type Type` of a message: () for Msg1 and Msg2, a Request for the others
MsgKind(M) == IF M \in {"Msg1", "Msg2"} THEN "()" ELSE "Request"

\* the type Sends<M>: M for a message of type (), (M, Tx<R>) for a request
SendsType(M) == IF MsgKind(M) = "()" THEN <<M>> ELSE <<M, "Tx">>

\* the values of Sends<M>
SendsValues(M) ==
    IF MsgKind(M) = "()" THEN {<<v>> : v \in MsgValues}
    ELSE {<<v, tx>> : v \in MsgValues, tx \in TxIds}

\* BoxedMessage::new::<M>(sends), lines 10-16
BoxedMessageNew(M, v) == [type_id |-> SendsType(M), value |-> v]

\* a downcast that does not look at the type of what the box holds
Downcast_Unchecked(b, M) == [ok |-> TRUE, sends |-> b.value, boxed |-> NoBox]

\* BoxedMessage::downcast::<M>, lines 19-27: Box<dyn Any>::downcast compares
\* the type of the held value with Sends<M>, and hands the box back on a
\* mismatch
Downcast(b, M) ==
    IF b.type_id = SendsType(M)
    THEN [ok |-> TRUE, sends |-> b.value, boxed |-> NoBox]
    ELSE [ok |-> FALSE, sends |-> <<>>,
          boxed |-> [type_id |-> b.type_id, value |-> b.value]]

BoxInit ==
    /\ phase = "Boxed"
    /\ BoxIdle
    /\ ncalls = [halt |-> 0, abort |-> 0]
    /\ now = 0
    /\ GroupIdle /\ RefIdle

\* a call of BoxedMessage::new::<M>(v)
BoxNew(M, v) ==
    /\ phase = "Boxed"
    /\ boxed = NoBox
    /\ boxed' = BoxedMessageNew(M, v)
    /\ orig' = [type |-> M, value |-> v]
    /\ casts' = <<>>
    /\ UNCHANGED <<phase, ncalls, now, gvars, rvars>>

\* a call of downcast::<M> on the live envelope; an Err gives it back
BoxDowncast(M) ==
    /\ phase = "Boxed"
    /\ boxed # NoBox
    /\ Len(casts) < MaxCasts
    /\ LET r == Downcast(boxed, M)
       IN  /\ boxed' = r.boxed
           /\ casts' = Append(casts, [to |-> M, ok |-> r.ok, sends |-> r.sends,
                                      before |-> boxed, after |-> r.boxed])
    /\ UNCHANGED <<orig, phase, ncalls, now, gvars, rvars>>

BoxNext ==
    \/ \E M \in MsgTypes : \E v \in SendsValues(M) : BoxNew(M, v)
    \/ \E M \in MsgTypes : BoxDowncast(M)

SpecBox == BoxInit /\ [][BoxNext]_vars


\* ----------------------------------------------------------- properties
Resolved == result # "None"

\* the start operation of slot i is still unresolved
Unresolved(i) == items[i] = "StartFut" /\ child[i] = "Pending"

\* no start operation of a child has resolved with anything but "Ok"
OnlyOk ==
    \A i \in Slots :
        /\ obs[i].start \in {"None", "Ok"}
        /\ items[i] = "StartFut" => child[i] \in {"Pending", "Ok"}

\* the within_limit calls made for slot i
CallsFor(i) == {k \in 1..Len(calls) : calls[k].slot = i}

Exhausted == \E k \in 1..Len(calls) : ~calls[k].ok

\* the earlier calls that are at most `within` old at call k
InWindow(k) == {j \in 1..(k - 1) : calls[k].at - calls[j].at <= within}

\* C1: when every child's start resolved "Ok" before the deadline of the
\* start timer, the group's start resolves with success and every slot is
\* Running; and while children only ever resolve "Ok", the group's start is
\* never resolved with a child still unresolved before that deadline.
C1_AllStartedInTime ==
    Resolved =>
        /\ (\A i \in Slots : early[i]) =>
               /\ result = "Ok"
               /\ \A i \in Slots : items[i] = "Supervisee"
        /\ (OnlyOk /\ \E i \in Slots : Unresolved(i)) => now >= start_deadline

C1_Witness ==
    /\ result = "Ok"
    /\ Len(items) = 2
    /\ \A i \in Slots : early[i] /\ items[i] = "Supervisee"

\* C2: a recoverable failure in the fan-out phase that exhausts the budget
\* makes the group's start resolve as Irrecoverable.
C2_ExhaustedIsIrrecoverable ==
    (/\ Resolved
     /\ \E i \in Slots :
            /\ obs[i].start = "Failed"
            /\ \E k \in CallsFor(i) : ~calls[k].ok)
    => result = "Irrecoverable"

\* C3: a success straight from the fan-out phase leaves every slot Running
\* or Done.
C3_FanOutSuccessAllRunning ==
    (result = "Ok" /\ ~start_failure) =>
        \A i \in Slots : items[i] \in {"Supervisee", "Completed"}

\* C4: the verdict of the draining phase is success exactly when no slot is
\* Starting or Failed, and Irrecoverable otherwise; it is never a
\* recoverable failure (nor already-complete).
C4_DrainVerdict ==
    (Resolved /\ start_failure) =>
        /\ result \in {"Ok", "Irrecoverable"}
        /\ result = "Ok" <=>
               \A i \in Slots : items[i] \notin {"StartFut", "Irrecoverable"}

C4_Witness ==
    /\ start_failure
    /\ result = "Ok"
    /\ \E i \in Slots : items[i] = "Spec"
    /\ \E i \in Slots : items[i] = "Supervisee"

\* C5: a draining phase that ends with every slot Done resolves as
\* already-complete.
C5_AllDoneIsCompleted ==
    (/\ Resolved /\ start_failure
     /\ Len(items) > 0
     /\ \A i \in Slots : items[i] = "Completed")
    => result = "Completed"

\* C6 as stated: no success straight from the fan-out phase at a poll made
\* once the fan-out timer has fired.
C6_NoSuccessAfterTimer ==
    (result = "Ok" /\ ~start_failure /\ Len(items) > 0) => now < start_deadline

\* C6 as amended: a poll in the fan-out phase made once the fan-out timer has
\* fired never leaves the group in the fan-out phase: it moves it to
\* draining, unless no slot is left Starting after the children were polled
\* (and the budget is not exhausted), and then it resolves with success.
C6_TimerEndsFanOut ==
    [][(phase = "StartFut" /\ ~start_failure /\ now >= start_deadline /\ Poll)
        => \/ start_failure'
           \/ /\ result' = "Ok"
              /\ \A i \in Slots : items'[i] # "StartFut"]_vars

C6_Witness ==
    /\ phase = "StartFut"
    /\ start_failure
    /\ ~Exhausted
    /\ \E i \in Slots : items[i] = "Supervisee" /\ ~obs[i].draining
    /\ \E i \in Slots : Unresolved(i)

\* C7 as stated (for a limit N >= 1): the first N calls report within limit,
\* the (N+1)-th call inside one window reports exceeded, and a call made
\* more than `within` after the oldest recorded attempt reports within limit.
C7_WithinAgainPastOldest ==
    limit >= 1 =>
        /\ \A k \in 1..Len(calls) : k <= limit => calls[k].ok
        /\ (Len(calls) > limit
            /\ calls[limit + 1].at - calls[1].at <= within)
               => ~calls[limit + 1].ok
        /\ \A k \in 1..Len(calls) :
               (calls[k].oldest # None /\ calls[k].at - calls[k].oldest > within)
                   => calls[k].ok

\* C7 as amended: the first N calls report within limit, the (N+1)-th call
\* inside one window reports exceeded, and in general a call reports within
\* limit exactly when fewer than N of the earlier calls are at most `within`
\* old; being past the window of the oldest recorded attempt is not enough.
C7_SlidingWindow ==
    /\ \A k \in 1..Len(calls) : k <= limit => calls[k].ok
    /\ (Len(calls) > limit /\ calls[limit + 1].at - calls[1].at <= within)
           => ~calls[limit + 1].ok
    /\ \A k \in 1..Len(calls) :
           calls[k].ok <=> Cardinality(InWindow(k)) < limit

C7_Witness ==
    /\ limit = 1
    /\ Len(calls) = 3
    /\ calls[1].ok /\ ~calls[2].ok /\ calls[3].ok
    /\ calls[3].oldest = calls[1].at

\* C8 as stated: every recoverable start failure the group observes makes
\* exactly one within_limit call.
C8_EveryFailureCharged ==
    \A i \in Slots :
        obs[i].start = "Failed" => Cardinality(CallsFor(i)) = 1

\* C8 as amended: a recoverable start failure observed in the fan-out phase
\* makes exactly one within_limit call; one observed in the draining phase
\* makes none.
C8_FanOutFailureCharged ==
    \A i \in Slots :
        obs[i].start = "Failed" =>
            Cardinality(CallsFor(i)) = IF obs[i].draining THEN 0 ELSE 1

C8_Witness ==
    /\ \E i \in Slots : obs[i].start = "Failed" /\ obs[i].draining
    /\ \E i \in Slots : obs[i].start = "Failed" /\ ~obs[i].draining

\* C9: in the fan-out phase a failure, recoverable or irrecoverable, makes
\* one call on the one limiter; the group moves to draining with the call
\* that reports the budget exhausted and, short of that, only once the
\* fan-out timer has fired; an irrecoverable outcome with budget left leaves
\* the group in fan-out with the slot Failed.
C9_OnlyExhaustionOrTimer ==
    /\ \A i \in Slots :
           (obs[i].start \in {"Failed", "Irrecoverable"} /\ ~obs[i].draining)
               => Cardinality(CallsFor(i)) = 1
    /\ \A k \in 1..Len(calls) :
           /\ calls[k].ok <=> Cardinality(InWindow(k)) < limit
           /\ ~calls[k].ok => start_failure /\ k = Len(calls)
    /\ (phase # "Spec" /\ start_failure /\ ~Exhausted) => now >= start_deadline
    /\ \A i \in Slots :
           (obs[i].start = "Irrecoverable" /\ ~start_failure)
               => items[i] = "Irrecoverable"

C9_Witness ==
    /\ phase = "StartFut"
    /\ ~start_failure
    /\ \E i \in Slots :
           /\ obs[i].start = "Irrecoverable"
           /\ \E k \in CallsFor(i) : calls[k].ok
    /\ \E i \in Slots : Unresolved(i)

\* C10: a call of halt (of abort) sends one halt (abort) signal to every
\* slot that is Running, none to any other slot, and changes no slot.
C10_SignalsRunningOnly ==
    [][/\ ncalls'.halt = ncalls.halt + 1 =>
             /\ items' = items
             /\ aborts' = aborts
             /\ \A i \in Slots :
                    halts'[i] = halts[i]
                                + (IF items[i] = "Supervisee" THEN 1 ELSE 0)
       /\ ncalls'.abort = ncalls.abort + 1 =>
             /\ items' = items
             /\ halts' = halts
             /\ \A i \in Slots :
                    aborts'[i] = aborts[i]
                                 + (IF items[i] = "Supervisee" THEN 1 ELSE 0)
      ]_vars

C10_Witness ==
    /\ ncalls.halt = 1 /\ ncalls.abort = 1
    /\ \E i \in Slots : items[i] = "Supervisee" /\ halts[i] = 1 /\ aborts[i] = 1
    /\ \E i \in Slots : items[i] # "Supervisee" /\ halts[i] = 0 /\ aborts[i] = 0

\* C11: after a successful start, polling the running group polls every
\* Running slot and never fails or panics. As claimed: no poll of the
\* running group panics. <OneForOneSupervisee as Future>::poll is todo!().
C11_SuperviseePollNeverPanics == phase # "Panicked"

\* C16: a group without children resolves with success at its first poll,
\* whatever the clock says, without entering the draining phase, and the
\* running supervisee it yields has no slot.
C16_EmptyGroupStartsAtOnce ==
    /\ (phase = "StartFut" /\ items = <<>>) =>
           \A f \in FreshChoices :
               LET r == PollLoop(LoopState(f))
               IN  r.out = "Ok" /\ ~r.start_failure /\ r.items = <<>>
    /\ (Resolved /\ nstarted = 0) =>
           result = "Ok" /\ items = <<>> /\ ~start_failure

C16_Witness ==
    /\ phase = "Supervisee" /\ nstarted = 0 /\ items = <<>>
    /\ result = "Ok" /\ now < start_deadline

\* a sequence of slot numbers that goes up
Ascending(q) == \A k \in 1..(Len(q) - 1) : q[k] < q[k + 1]

\* the state in which the draining pass of this poll begins, for a poll that
\* has one
DrainEntry(s) == IF s.start_failure THEN s ELSE FanOutBranch(s)

\* C17 as claimed: one poll of the start operation polls every slot that is
\* Starting or Running exactly once, in insertion order.
C17_EachPolledOnce ==
    phase = "StartFut" =>
        \A f \in FreshChoices :
            LET r == PollLoop(LoopState(f))
            IN  /\ \A i \in Slots :
                       items[i] \in {"StartFut", "Supervisee"} =>
                           r.polled[i] = 1
                /\ Ascending(r.order)

\* C17, amended: the fan-out pass of a poll polls every Starting slot once,
\* in insertion order, up to the slot whose failure exhausts the budget, and
\* polls no Running slot; the draining pass polls every slot that is then
\* Starting or Running once, in insertion order; the poll in which the group
\* moves from fan-out to draining runs both passes, one after the other.
C17_PolledOncePerPass ==
    phase = "StartFut" =>
        \A f \in FreshChoices :
            LET s0 == LoopState(f)
                r == PollLoop(s0)
                fo == IF start_failure THEN s0 ELSE FanOutLoop(s0, 1)
                b == IF fo.start_failure /\ ~start_failure
                     THEN fo.calls[Len(fo.calls)].slot ELSE Len(items)
                drains == r.start_failure
                d0 == IF drains THEN DrainEntry(s0) ELSE r
            IN  /\ ~start_failure =>
                       \A i \in Slots :
                           fo.polled[i] =
                               IF i <= b /\ items[i] = "StartFut"
                               THEN 1 ELSE 0
                /\ Ascending(fo.order)
                /\ ~drains => r.polled = fo.polled /\ r.order = fo.order
                /\ drains =>
                       /\ d0.polled = fo.polled /\ d0.order = fo.order
                       /\ \A i \in Slots :
                              r.polled[i] - d0.polled[i] =
                                  IF d0.items[i] \in {"StartFut", "Supervisee"}
                                  THEN 1 ELSE 0
                       /\ SubSeq(r.order, 1, Len(fo.order)) = fo.order
                       /\ Ascending(SubSeq(r.order, Len(fo.order) + 1,
                                           Len(r.order)))

\* a poll moved the group to draining and polled a slot in both passes
C17_Witness ==
    /\ phase \in {"StartFut", "Err", "Supervisee"} /\ start_failure
    /\ \E i \in Slots : polled[i] = 2
    /\ \E i \in Slots : polled[i] = 1

C19_SlotsKept ==
    phase \in {"StartFut", "Supervisee", "Err", "Panicked"} =>
        /\ Len(items) = nstarted
        /\ ids = [i \in 1..nstarted |-> i]
        /\ Resolved => result \in {"Ok", "Irrecoverable"}

C19_Witness ==
    /\ Resolved /\ nstarted = MaxChildren
    /\ \E i \in Slots : items[i] = "Spec"
    /\ \E i \in Slots : items[i] # "Spec"

\* the polls of the wrapper's start operation that resolved with success
RefOks == SelectSeq(hist, LAMBDA h : h.op = "start" /\ h.out = "Ok")

\* the references that were put into the channel
Pushed ==
    LET d == SelectSeq(sends, LAMBDA e : e.ok)
    IN  [k \in 1..Len(d) |-> d[k].ref]

\* C12: every success of the wrapper's start operation comes with exactly
\* one send on the wrapper's channel, of the reference the wrapped start
\* produced, made by the poll that reports the success before it returns;
\* the reference is in the channel whenever the receiver was there to
\* take it.
C12_OneReferencePerSuccess ==
    /\ Len(sends) = Len(RefOks)
    /\ \A k \in 1..Len(sends) :
           /\ sends[k].ref = RefOks[k].ref /\ sends[k].chan = Chan
           /\ sends[k].ok = RefOks[k].rx
    /\ rx_open => received \o queue = Pushed
    /\ (phase = "RefSenderSpecFut" /\ inner = "Ok") =>
           LET w == RefSenderSpecFutPoll(RefState, nstarts)
           IN  /\ w.out = "Ok"
               /\ w.sends = Append(sends, [ref |-> nstarts, chan |-> Chan,
                                           ok |-> rx_open])
               /\ rx_open => w.queue = Append(queue, nstarts)

C12_Witness ==
    /\ phase = "RefSenderSupervisee" /\ rx_open
    /\ Len(RefOks) = 1 /\ queue = <<RefOks[1].ref>>

\* C13: a start of the wrapped specification that fails recoverably pushes
\* nothing, and the specification handed back holds the sender the wrapper
\* was built with, so that the reference of a later successful retry is sent
\* on that channel.
C13_FailureKeepsSender ==
    /\ (phase = "RefSenderSpecFut" /\ inner = "Failure") =>
           LET w == RefSenderSpecFutPoll(RefState, nstarts)
           IN  /\ w.out = "Failure" /\ w.phase = "RefSenderSpec"
               /\ w.sender = Chan
               /\ w.sends = sends /\ w.queue = queue
    /\ phase = "RefSenderSpec" => sender = Chan
    /\ \A k \in 1..Len(hist) :
           (hist[k].op = "start" /\ hist[k].out = "Ok") =>
               \E m \in 1..Len(sends) :
                   /\ sends[m].ref = hist[k].ref /\ sends[m].chan = Chan
                   /\ hist[k].rx => sends[m].ok

\* a start failed, the retry succeeded and the receiver got its reference
C13_Witness ==
    /\ Len(hist) >= 2
    /\ hist[1].op = "start" /\ hist[1].out = "Failure"
    /\ hist[2].op = "start" /\ hist[2].out = "Ok"
    /\ received = <<hist[2].ref>>

\* C14: when the wrapped start succeeds after the receiver was dropped, the
\* wrapper's start operation still resolves with success at that poll and
\* hands on the wrapped supervisee.
C14_DroppedReceiverStillStarts ==
    /\ (phase = "RefSenderSpecFut" /\ inner = "Ok" /\ ~rx_open) =>
           LET w == RefSenderSpecFutPoll(RefState, nstarts)
           IN  /\ w.out = "Ok" /\ w.phase = "RefSenderSupervisee"
               /\ w.inner = "Pending"
    /\ \A k \in 1..Len(hist) :
           (hist[k].op = "start" /\ hist[k].inner = "Ok") =>
               hist[k].out = "Ok"

C14_Witness ==
    /\ phase = "RefSenderSupervisee" /\ ~rx_open
    /\ hist # <<>>
    /\ LET h == hist[Len(hist)]
       IN  h.op = "start" /\ h.out = "Ok" /\ ~h.rx
    /\ ~sends[Len(sends)].ok

\* C20: the wrapper's start operation resolves with the kind of outcome the
\* wrapped start resolves with, at the same poll; the wrapped supervisee's
\* exit is handed on with its kind; every halt and every abort on the
\* wrapper is one halt, or one abort, on the wrapped supervisee; the
\* wrapper's timeouts are those of the wrapped objects.
C20_WrapperTransparent ==
    /\ phase = "RefSenderSpecFut" =>
           RefSenderSpecFutPoll(RefState, nstarts).out = inner
    /\ phase = "RefSenderSupervisee" =>
           RefSenderSuperviseePoll(RefState).out = inner
    /\ \A k \in 1..Len(hist) : hist[k].out = hist[k].inner
    /\ inner_halts = ncalls.halt /\ inner_aborts = ncalls.abort
    /\ StartTimeout = inner_times.start
    /\ AbortTimeout = inner_times.abort

C20_Witness ==
    /\ \E k \in 1..Len(hist) : hist[k].op = "exit" /\ hist[k].out = "Restart"
    /\ \E k \in 1..Len(hist) : hist[k].op = "start" /\ hist[k].out = "Failure"
    /\ ncalls.halt = 1 /\ ncalls.abort = 1
    /\ inner_times.start # inner_times.abort

\* C15: an envelope made by BoxedMessage::new from a value of message type M
\* downcasts to M with that value; a downcast to any other message type
\* fails and gives the envelope back as it was, so that a later downcast to
\* M still yields the value.
C15_DowncastRoundTrip ==
    phase = "Boxed" =>
        /\ \A k \in 1..Len(casts) :
               LET c == casts[k]
               IN  IF c.to = orig.type
                   THEN c.ok /\ c.sends = orig.value
                   ELSE /\ ~c.ok
                        /\ c.after = c.before
                        /\ c.after = BoxedMessageNew(orig.type, orig.value)
        /\ boxed # NoBox =>
               \A M \in MsgTypes :
                   LET r == Downcast(boxed, M)
                   IN  IF M = orig.type
                       THEN r.ok /\ r.sends = orig.value
                       ELSE ~r.ok /\ r.boxed = boxed

\* two downcasts to other types failed, then the downcast to M succeeded
C15_Witness ==
    /\ Len(casts) = 3 /\ boxed = NoBox
    /\ ~casts[1].ok /\ ~casts[2].ok /\ casts[1].to # casts[2].to
    /\ casts[3].ok /\ casts[3].sends = orig.value
    /\ orig.type = "Req1"

\* the references of the starts that succeeded, in the order they succeeded
RefsStarted == [k \in 1..Len(RefOks) |-> RefOks[k].ref]

\* C21: through any sequence of starts, recoverable start failures and exits
\* that request a restart, the live wrapper always holds the sender of its
\* channel and no start panics for want of it; what the receiver has taken
\* out and can still take out is, while it lives, one reference per
\* successful start in the order of the successes; a start that resolves
\* Finished or Unhandled sends nothing.
C21_SenderKeptReferencesInOrder ==
    /\ phase # "Panicked"
    /\ phase \in {"RefSenderSpec", "RefSenderSpecFut", "RefSenderSupervisee"}
           => sender = Chan
    /\ phase = "RefSenderSupervisee" =>
           RefSenderSuperviseePoll(RefState).sender = Chan
    /\ rx_open => received \o queue = RefsStarted
    /\ \E n \in 0..Len(RefsStarted) : received = SubSeq(RefsStarted, 1, n)
    /\ (phase = "RefSenderSpecFut" /\ inner \in {"Finished", "Unhandled"}) =>
           LET w == RefSenderSpecFutPoll(RefState, nstarts)
           IN  w.sends = sends /\ w.queue = queue
    /\ \A k \in 1..Len(sends) :
           \E j \in 1..Len(hist) :
               /\ hist[j].op = "start" /\ hist[j].out = "Ok"
               /\ hist[j].ref = sends[k].ref

\* a start failed, the retry succeeded, the child asked for a restart, the
\* next start succeeded, and the receiver took both references out
C21_Witness ==
    /\ Len(hist) = 4
    /\ hist[1].out = "Failure" /\ hist[2].out = "Ok"
    /\ hist[3].out = "Restart" /\ hist[4].out = "Ok"
    /\ received = <<2, 3>> /\ queue = <<>>

\* the changes of kind a slot may go through while the group starts
OneWay(a, b) ==
    CASE a = "StartFut" ->
           b \in {"StartFut", "Supervisee", "Completed", "Spec",
                  "Irrecoverable"}
      [] a = "Supervisee" ->
           b \in {"Supervisee", "Spec", "Completed", "Irrecoverable"}
      [] OTHER -> b = a

\* what one poll does to the slots, pass by pass, in the current state
OneWayPoll ==
    \A f \in FreshChoices :
        LET s0 == LoopState(f)
            fo == IF start_failure THEN s0 ELSE FanOutBranch(s0)
            r == PollLoop(s0)
            res == ResultItems(r.out, r.items)
        IN  /\ Len(res) = Len(items)
            /\ \A i \in Slots :
                   /\ OneWay(items[i], fo.items[i])
                   /\ OneWay(fo.items[i], r.items[i])
                   /\ res[i] = r.items[i]
                   /\ items[i] = "Supervisee" =>
                          /\ fo.items[i] = "Supervisee"
                          /\ r.items[i] # "Supervisee" => r.start_failure

\* C22: start() makes every Pending slot Starting; from then on, in every
\* pass of every poll, a Starting slot becomes Running, Done, Pending or
\* Failed or stays, a Running slot becomes Pending, Done or Failed in the
\* draining pass only, and a Pending, Failed or Done slot stays as it is; a
\* slot whose start failed recoverably is Pending for good.
C22_OneWaySlots ==
    /\ [](/\ (phase = "Spec" /\ \A i \in Slots : items[i] = "Spec") =>
                 \A i \in Slots : ItemStart(items[i]) = "StartFut"
          /\ phase = "StartFut" => OneWayPoll
          /\ phase \in {"StartFut", "Supervisee", "Err", "Panicked"} =>
                 \A i \in Slots :
                     obs[i].start = "Failed" => items[i] = "Spec")
    /\ [][/\ Start => \A i \in Slots : items'[i] = "StartFut"
          /\ phase = "StartFut" =>
                 /\ Len(items') = Len(items)
                 /\ \A i \in Slots : OneWay(items[i], items'[i])]_vars

\* the group went through draining; one slot failed recoverably and is
\* Pending, another ran and is Done
C22_Witness ==
    /\ nstarted = MaxChildren /\ start_failure
    /\ \E i \in Slots : obs[i].start = "Failed" /\ items[i] = "Spec"
    /\ \E j \in Slots : obs[j].start = "Ok" /\ items[j] = "Completed"

\* C23: a start operation that is polled whenever a poll changes anything,
\* with a clock that goes on, resolves; the Sleep of its timer is found
\* ready at most twice on the way, and the second time ends the operation,
\* whatever the children do.
C23_StartTerminates ==
    /\ (phase = "StartFut") ~> Resolved
    /\ [](fired <= 2 /\ (fired = 2 => Resolved))

\* both timers fired; a child is still starting and another still runs
C23_Witness ==
    /\ Resolved /\ fired = 2
    /\ \E i \in Slots : Unresolved(i)
    /\ \E j \in Slots : items[j] = "Supervisee" /\ child[j] = "Pending"

\* a slot that the draining pass which begins in state d will not settle:
\* its child runs and does not exit, or it starts, or it is still starting
Unsettled(d) ==
    \E i \in 1..Len(d.items) :
        \/ d.items[i] = "Supervisee" /\ d.child[i] = "Pending"
        \/ d.items[i] = "StartFut" /\ d.child[i] \in {"Pending", "Ok"}

\* C24: a poll whose draining pass meets a Running child that does not
\* exit, a child that becomes Running or a child still Starting resolves
\* only if the draining timer has fired; the poll that enters draining
\* never has, so it does not resolve; without such a slot the pass
\* resolves at once.
C24_RunningIsNotSettled ==
    phase = "StartFut" =>
        \A f \in FreshChoices :
            LET s0 == LoopState(f)
                r == PollLoop(s0)
                d0 == DrainEntry(s0)
            IN  r.start_failure =>
                    /\ (Unsettled(d0) /\ ~TimeLimitReached(d0.timer))
                           => r.out = "Pending"
                    /\ (Unsettled(d0) /\ ~start_failure) => r.out = "Pending"
                    /\ ~Unsettled(d0) => r.out # "Pending"

\* draining goes on although no slot is Starting: a child runs
C24_Witness ==
    /\ phase = "StartFut" /\ start_failure /\ timer # None /\ now < timer
    /\ \A i \in Slots : items[i] # "StartFut"
    /\ \E i \in Slots : items[i] = "Supervisee" /\ child[i] = "Pending"
    /\ \E i \in Slots : polled[i] >= 1
====
